---- MODULE Spec2Model ----
(***************************************************************************)
(* Speaker-selection callbacks of the cruise_promo group chats             *)
(* (research.py, research3.py).  A callback receives the agent that spoke  *)
(* last and the group chat, reads groupchat.messages[-1]["content"] in     *)
(* some branches, and returns an agent, the string "auto", or nothing.     *)
(*                                                                         *)
(* Spec is a call harness: the transcript starts as any bounded list of    *)
(* messages, a conversation turn appends a message, and a call applies one *)
(* of the three callbacks to an arbitrary last speaker and the transcript. *)
(***************************************************************************)
EXTENDS Integers, Sequences, FiniteSets, TLC

VARIABLES
    messages,   \* groupchat.messages: the transcript, a list of dicts
    call,       \* the latest callback invocation and its outcome
    env,        \* index.py: which of the two environment variables are set
    table,      \* index.py: the record store, analysisId -> item
    pc,         \* index.py: the handler's position
    frame,      \* index.py: the handler's local variables
    log,        \* index.py: the calls to collaborators of this invocation
    response,   \* index.py: what the invocation returned
    clock,      \* index.py: datetime.now(), counted in invocations
    tool,       \* tool adapters: the latest call of a tool function
    image,      \* image_gen1.py: the run of generate_image
    chat        \* the group chat manager's loop over groupchat.messages

router_vars == <<messages, call>>
pdf_vars == <<env, table, pc, frame, log, response, clock>>
adapter_vars == <<tool, image>>
chat_vars == <<chat>>
vars == <<messages, call, env, table, pc, frame, log, response, clock,
          tool, image, chat>>

(* Bound on the transcript length. *)
MaxLen == 2

(* Bound on the number of calls made on one transcript. *)
MaxCalls == 2

(* Bound on the number of invocations of the handler. *)
MaxInvocations == 2

(* Bound on the number of calls of tool functions. *)
MaxToolCalls == 2

(* Bound on the number of runs of generate_image. *)
MaxRuns == 2

(* Bound on max_round, the number of messages of a group chat. *)
MaxRound == 5

----------------------------------------------------------------------------
(* Python values.  A str is its sequence of characters.                    *)

Str(s) == [type |-> "str", chars |-> s]
None == [type |-> "NoneType", chars |-> <<>>]

(* Outcome of evaluating an expression or a call. *)
Return(v) == [kind |-> "return", value |-> v]
Raise(e) == [kind |-> "raise", value |-> e]

(* x in y for two str operands: y has x as a contiguous run of characters. *)
StrContains(sub, s) ==
    \E i \in 0..(Len(s) - Len(sub)) : SubSeq(s, i + 1, i + Len(sub)) = sub

(* The string literals of the callbacks. *)
EXITCODE_1 == <<"e","x","i","t","c","o","d","e",":"," ","1">>
COMPLETE == <<"C","O","M","P","L","E","T","E">>

----------------------------------------------------------------------------
(* The module-level agents; each is a distinct object, known by its name.  *)

user_proxy == "Admin"
writer == "Writer"
planner == "Planner"
researcher == "Researcher"
executor == "Executor"

Participants == {user_proxy, planner, researcher, executor, writer}

(* An agent object that no callback has a rule for. *)
Engineer == "Engineer"

Speakers == Participants \cup {Engineer}

(* The sentinel string for automatic selection. *)
AUTO == "auto"

(* A callback that falls off its last elif returns None. *)
NoDecision == "None"

----------------------------------------------------------------------------
(* Variant: reads messages[0], the oldest message. *)
FirstContent(msgs) ==
    IF msgs = <<>> THEN Raise("IndexError")
    ELSE IF "content" \notin DOMAIN msgs[1] THEN Raise("KeyError")
    ELSE Return(msgs[1].content)

(* messages[-1]["content"] *)
LastContent(msgs) ==
    IF msgs = <<>> THEN Raise("IndexError")
    ELSE IF "content" \notin DOMAIN msgs[Len(msgs)] THEN Raise("KeyError")
    ELSE Return(msgs[Len(msgs)].content)

(* messages[-1]["content"] == literal: == between any two objects is       *)
(* defined; a non-str never equals a str.                                  *)
ContentEquals(msgs, literal) ==
    LET c == LastContent(msgs) IN
    IF c.kind = "raise" THEN c
    ELSE Return(c.value = Str(literal))

(* literal in messages[-1]["content"]: None is not a container.            *)
ContentContains(msgs, literal) ==
    LET c == LastContent(msgs) IN
    IF c.kind = "raise" THEN c
    ELSE IF c.value.type # "str" THEN Raise("TypeError")
    ELSE Return(StrContains(literal, c.value.chars))

(* if cond: a else: b, where evaluating cond may raise. *)
Branch(cond, a, b) ==
    IF cond.kind = "raise" THEN cond
    ELSE IF cond.value THEN Return(a) ELSE Return(b)

(* Variant: the Executor rule tests containment instead of equality. *)
state_transition_contains(last_speaker, msgs) ==
    IF last_speaker = user_proxy THEN Return(planner)
    ELSE IF last_speaker = planner THEN Return(AUTO)
    ELSE IF last_speaker = researcher THEN Return(executor)
    ELSE IF last_speaker = executor
         THEN Branch(ContentContains(msgs, EXITCODE_1), researcher, planner)
    ELSE IF last_speaker = writer THEN Return(user_proxy)
    ELSE Return(NoDecision)

(* Variant: the Researcher rule routes on the completion token. *)
state_transition_token(last_speaker, msgs) ==
    IF last_speaker = user_proxy THEN Return(planner)
    ELSE IF last_speaker = planner THEN Return(AUTO)
    ELSE IF last_speaker = researcher
         THEN Branch(ContentContains(msgs, COMPLETE), writer, planner)
    ELSE IF last_speaker = executor
         THEN Branch(ContentEquals(msgs, EXITCODE_1), researcher, planner)
    ELSE IF last_speaker = writer THEN Return(user_proxy)
    ELSE Return(NoDecision)

(* Variant: the Writer rule defers to automatic selection. *)
state_transition_writer_auto(last_speaker, msgs) ==
    IF last_speaker = user_proxy THEN Return(planner)
    ELSE IF last_speaker = planner THEN Return(AUTO)
    ELSE IF last_speaker = researcher THEN Return(executor)
    ELSE IF last_speaker = executor
         THEN Branch(ContentEquals(msgs, EXITCODE_1), researcher, planner)
    ELSE IF last_speaker = writer THEN Return(AUTO)
    ELSE Return(NoDecision)

(* research.py: state_transition *)
state_transition(last_speaker, msgs) ==
    IF last_speaker = user_proxy THEN Return(planner)
    ELSE IF last_speaker = planner THEN Return(AUTO)
    ELSE IF last_speaker = researcher THEN Return(executor)
    ELSE IF last_speaker = executor
         THEN Branch(ContentEquals(msgs, EXITCODE_1), researcher, planner)
    ELSE IF last_speaker = writer THEN Return(user_proxy)
    ELSE Return(NoDecision)

(* a or b: b is evaluated only when a is false. *)
Or(a, b) ==
    IF a.kind = "raise" THEN a
    ELSE IF a.value THEN a ELSE b

(* Variant: the Planner rule names the Researcher instead of deferring. *)
research3_state_transition_planner(last_speaker, msgs) ==
    IF last_speaker = user_proxy THEN Return(planner)
    ELSE IF last_speaker = planner THEN Return(researcher)
    ELSE IF last_speaker = researcher
         THEN Branch(Or(ContentEquals(msgs, COMPLETE),
                        ContentContains(msgs, COMPLETE)),
                     writer, planner)
    ELSE IF last_speaker = executor
         THEN Branch(ContentEquals(msgs, EXITCODE_1), researcher, planner)
    ELSE IF last_speaker = writer THEN Return(user_proxy)
    ELSE Return(NoDecision)

(* research3.py: state_transition *)
research3_state_transition(last_speaker, msgs) ==
    IF last_speaker = user_proxy THEN Return(planner)
    ELSE IF last_speaker = planner THEN Return(AUTO)
    ELSE IF last_speaker = researcher
         THEN Branch(Or(ContentEquals(msgs, COMPLETE),
                        ContentContains(msgs, COMPLETE)),
                     writer, planner)
    ELSE IF last_speaker = executor
         THEN Branch(ContentEquals(msgs, EXITCODE_1), researcher, planner)
    ELSE IF last_speaker = writer THEN Return(user_proxy)
    ELSE Return(NoDecision)

(* Variant: the Researcher rule tests equality instead of containment. *)
state_transition_2_equals(last_speaker, msgs) ==
    IF last_speaker = executor
         THEN Branch(ContentContains(msgs, COMPLETE), planner, researcher)
    ELSE IF last_speaker = planner THEN Return(AUTO)
    ELSE IF last_speaker = researcher
         THEN Branch(ContentEquals(msgs, COMPLETE), planner, executor)
    ELSE IF last_speaker = user_proxy THEN Return(planner)
    ELSE IF last_speaker = writer THEN Return(AUTO)
    ELSE Return(NoDecision)

(* Variant: the two targets of the Executor rule are exchanged. *)
state_transition_2_swapped(last_speaker, msgs) ==
    IF last_speaker = executor
         THEN Branch(ContentContains(msgs, COMPLETE), researcher, planner)
    ELSE IF last_speaker = planner THEN Return(AUTO)
    ELSE IF last_speaker = researcher
         THEN Branch(ContentContains(msgs, COMPLETE), planner, executor)
    ELSE IF last_speaker = user_proxy THEN Return(planner)
    ELSE IF last_speaker = writer THEN Return(AUTO)
    ELSE Return(NoDecision)

(* Variant: the rule for user_proxy is missing. *)
state_transition_2_no_admin(last_speaker, msgs) ==
    IF last_speaker = executor
         THEN Branch(ContentContains(msgs, COMPLETE), planner, researcher)
    ELSE IF last_speaker = planner THEN Return(AUTO)
    ELSE IF last_speaker = researcher
         THEN Branch(ContentContains(msgs, COMPLETE), planner, executor)
    ELSE IF last_speaker = writer THEN Return(AUTO)
    ELSE Return(NoDecision)

(* Variant: the Writer rule ends the cycle at Admin, as state_transition. *)
state_transition_2_writer_admin(last_speaker, msgs) ==
    IF last_speaker = executor
         THEN Branch(ContentContains(msgs, COMPLETE), planner, researcher)
    ELSE IF last_speaker = planner THEN Return(AUTO)
    ELSE IF last_speaker = researcher
         THEN Branch(ContentContains(msgs, COMPLETE), planner, executor)
    ELSE IF last_speaker = user_proxy THEN Return(planner)
    ELSE IF last_speaker = writer THEN Return(user_proxy)
    ELSE Return(NoDecision)

(* research3.py: state_transition_2 *)
state_transition_2(last_speaker, msgs) ==
    IF last_speaker = executor
         THEN Branch(ContentContains(msgs, COMPLETE), planner, researcher)
    ELSE IF last_speaker = planner THEN Return(AUTO)
    ELSE IF last_speaker = researcher
         THEN Branch(ContentContains(msgs, COMPLETE), planner, executor)
    ELSE IF last_speaker = user_proxy THEN Return(planner)
    ELSE IF last_speaker = writer THEN Return(AUTO)
    ELSE Return(NoDecision)

(* The three callbacks, by the name a group chat is configured with. *)
Policies == {"research.state_transition", "research3.state_transition",
             "research3.state_transition_2"}

(* speaker_selection_method(last_speaker, groupchat) *)
speaker_selection_method(policy, last_speaker, msgs) ==
    CASE policy = "research.state_transition" ->
            state_transition(last_speaker, msgs)
      [] policy = "research3.state_transition" ->
            research3_state_transition(last_speaker, msgs)
      [] policy = "research3.state_transition_2" ->
            state_transition_2(last_speaker, msgs)

----------------------------------------------------------------------------
(* The inputs of the harness. *)

(* Message contents: the two literals, near misses of each, and None. *)
Contents ==
    { Str(<<>>),
      Str(EXITCODE_1),
      Str(EXITCODE_1 \o <<" ">>),
      Str(<<"E">> \o Tail(EXITCODE_1)),
      Str(COMPLETE),
      Str(<<"i","s"," ">> \o COMPLETE \o <<".">>),
      Str(<<"c","o","m","p","l","e","t","e">>),
      Str(<<"d","a","t","a">>),
      None }

(* The speaker recorded on a message. *)
Names == {researcher, executor}

(* A message dict, with or without a "content" key. *)
Messages ==
    [name : Names, content : Contents] \cup [name : Names]

RECURSIVE Transcripts(_)
Transcripts(n) ==
    IF n = 0 THEN {<<>>}
    ELSE LET shorter == Transcripts(n - 1) IN
         shorter \cup {Append(t, m) : t \in {u \in shorter : Len(u) = n - 1},
                                     m \in Messages}

NoCall ==
    [policy |-> "", last_speaker |-> "", outcome |-> [kind |-> "", value |-> ""],
     calls |-> 0]

----------------------------------------------------------------------------
(* process-lease-pdf/index.py: the handler of an S3 upload event.          *)
(* Values.                                                                 *)

(* Python's None where a str is expected (metadata.get without default). *)
PyNone == <<"<None>">>

(* not x, for x a str or None. *)
Falsy(x) == x = PyNone \/ x = <<>>

(* The two-digit escapes the object keys of the model use. *)
HexChar(h) ==
    CASE h = <<"2","F">> -> <<"/">>
      [] h = <<"2","0">> -> <<" ">>
      [] OTHER -> <<"%">> \o h

(* urllib.parse.unquote_plus: "+" is a space, "%XX" the escaped character. *)
RECURSIVE unquote_plus(_)
unquote_plus(k) ==
    IF k = <<>> THEN <<>>
    ELSE IF Head(k) = "+" THEN <<" ">> \o unquote_plus(Tail(k))
    ELSE IF Head(k) = "%" /\ Len(k) >= 3
         THEN HexChar(SubSeq(k, 2, 3)) \o unquote_plus(SubSeq(k, 4, Len(k)))
    ELSE <<Head(k)>> \o unquote_plus(Tail(k))

(* s3_object_key.split('/')[-1] *)
RECURSIVE LastSegment(_)
LastSegment(k) ==
    IF \A i \in 1..Len(k) : k[i] # "/" THEN k
    ELSE LastSegment(Tail(k))

(* Variant: the text is tested without strip(). *)
IsBlank_unstripped(text) == text = <<>>

(* str.strip() leaves nothing: every character is whitespace. *)
Whitespace == {" ", "\n", "\t"}

IsBlank(text) == \A i \in 1..Len(text) : text[i] \in Whitespace

(* The objects in the bucket, by key, with the metadata of the upload.     *)
(* A metadata key that was not set is PyNone.                              *)
S3Objects ==
    { [key |-> <<"l","/","a"," ","1">>, analysis_id |-> <<"a","1">>,
       user_id |-> <<"u","1">>, state |-> <<"C","A">>,
       filename |-> <<"a","1",".","p","d","f">>],
      [key |-> <<"l","/","b">>, analysis_id |-> <<"a","1">>,
       user_id |-> <<"u","1">>, state |-> <<"N","Y">>,
       filename |-> PyNone],
      [key |-> <<"l","/","c">>, analysis_id |-> <<"a","2">>,
       user_id |-> PyNone, state |-> PyNone,
       filename |-> PyNone],
      [key |-> <<"x">>, analysis_id |-> PyNone,
       user_id |-> <<"u","1">>, state |-> <<"C","A">>,
       filename |-> PyNone] }

(* The S3 events: one record naming the bucket and the URL-encoded key of  *)
(* an object, or no record at all.                                         *)
Events ==
    { [Records |-> <<[bucket |-> "uploads", key |-> <<"l","%","2","F","a","+","1">>]>>],
      [Records |-> <<[bucket |-> "uploads", key |-> <<"l","/","b">>]>>],
      [Records |-> <<[bucket |-> "uploads", key |-> <<"l","/","c">>]>>],
      [Records |-> <<[bucket |-> "uploads", key |-> <<"x">>]>>],
      [Records |-> <<>>] }

(* The analysis identifiers of the record store. *)
AnalysisIds == {o.analysis_id : o \in S3Objects} \ {PyNone}

(* metadata.get(key, default) *)
MetadataGet(value, default) == IF value = PyNone THEN default ELSE value

(* The literal defaults of the handler. *)
UNKNOWN_USER == <<"unknown_user_metadata_error">>
UNKNOWN_STATE == <<"unknown_state_metadata_error">>
UNKNOWN_KEY == <<"unknown_s3_key_on_error">>

(* Texts that page.get_text() can yield, joined. *)
Texts == { <<>>, <<" ", "\n">>, <<"L","e","a","s","e">>, <<" ","L"," ">> }

(* Status codes the Next.js endpoint can answer with. *)
DownstreamStatuses == {200, 201, 304, 404, 503}

(* Variant: only a 5XX answer raises. *)
RaisesForStatus_5xx(code) == 500 <= code /\ code < 600

(* response.raise_for_status(): raises for 4XX and 5XX. *)
RaisesForStatus(code) == 400 <= code /\ code < 600

(* An item of the record store: the attributes it has, and their values. *)
Attrs == {"status", "errorDetails", "lastUpdatedTimestamp", "s3Key",
          "fileName", "userId", "userSelectedState"}

NoItem ==
    [has |-> {}, status |-> "", errorDetails |-> <<"", "">>,
     lastUpdatedTimestamp |-> 0, s3Key |-> <<>>, fileName |-> <<>>,
     userId |-> <<>>, userSelectedState |-> <<>>]

(* Variant: the update names errorDetails and the timestamp only. *)
SetFailed_keeps_status(item, details, now) ==
    [item EXCEPT !.has = @ \cup {"errorDetails", "lastUpdatedTimestamp"},
                 !.errorDetails = details,
                 !.lastUpdatedTimestamp = now]

(* Variant: put_item, which replaces the whole item. *)
SetFailed_put_item(item, details, now) ==
    [NoItem EXCEPT !.has = {"status", "errorDetails", "lastUpdatedTimestamp"},
                   !.status = "FAILED",
                   !.errorDetails = details,
                   !.lastUpdatedTimestamp = now]

(* update_item: SET #status = :s, #errorDetails = :e, #lastUpdated = :lu *)
SetFailed(item, details, now) ==
    [item EXCEPT !.has = @ \cup {"status", "errorDetails", "lastUpdatedTimestamp"},
                 !.status = "FAILED",
                 !.errorDetails = details,
                 !.lastUpdatedTimestamp = now]

(* update_item: SET #status = :s, #lastUpdated = :lu, #s3Key = :sk,        *)
(* #fileName = :fn, #userId = :uid, #userState = :ust                      *)
SetComplete(item, now, key, filename, uid, ust) ==
    [item EXCEPT !.has = @ \cup {"status", "lastUpdatedTimestamp", "s3Key",
                                 "fileName", "userId", "userSelectedState"},
                 !.status = "TEXT_EXTRACTION_COMPLETE",
                 !.lastUpdatedTimestamp = now,
                 !.s3Key = key,
                 !.fileName = filename,
                 !.userId = uid,
                 !.userSelectedState = ust]

(* The messages of the exceptions, and of the 400 and 500 bodies. *)
MSG_CONFIG == "Lambda configuration error."
MSG_NO_TEXT == "No text extracted from PDF."
MSG_MISSING_ID == "Missing 'analysis-id' in S3 metadata, cannot proceed."
DETAILS_NO_TEXT ==
    <<"", "No text could be extracted. The PDF might be image-based or empty.">>
PREFIX_METADATA == "S3 metadata retrieval/parsing error: "

(* The local variables of one invocation; status_code is that of the      *)
(* answer to the post (0: no answer), raised the messages of the           *)
(* exceptions raised so far, e the one being handled.                      *)
NoFrame ==
    [event |-> [Records |-> <<>>],
     bucket_name |-> "unknown_bucket_on_error",
     s3_object_key |-> UNKNOWN_KEY,
     analysis_id_from_metadata |-> PyNone,
     user_id |-> UNKNOWN_USER,
     user_selected_state |-> UNKNOWN_STATE,
     original_filename |-> <<>>,
     extracted_text |-> <<>>,
     status_code |-> 0,
     e |-> "",
     raised |-> <<>>]

NoResponse == [statusCode |-> 0, error |-> ""]

(* A call to a collaborator: which, from which line, what it wrote, and   *)
(* whether it returned (ok) or raised.                                     *)
Effect(op, line, status, ok) ==
    [op |-> op, line |-> line, status |-> status, ok |-> ok]

(* The frame once an exception with message msg is raised. *)
Raised(f, msg) == [f EXCEPT !.e = msg, !.raised = Append(@, msg)]

(* The object a key names. *)
ObjectAt(key) == CHOOSE o \in S3Objects : o.key = key

----------------------------------------------------------------------------
(* The states in which the tool adapters, generate_image and the group     *)
(* chat have not been started.                                             *)

(* A fetched page: its <title> text (PyNone without a <title>), its <p>    *)
(* elements, its <div class="MQZWZd"> elements and its text.               *)
NoPage == [title |-> PyNone, paragraphs |-> <<>>, divs |-> <<>>, text |-> <<>>]

(* What a remote call gave: an exception, or a response. *)
NoRemote == [raised |-> FALSE, status |-> 0, page |-> NoPage]

NoResult == [kind |-> "", value |-> [type |-> "", items |-> <<>>, title |-> <<>>]]

NoTool ==
    [name |-> "", platform |-> "", remote |-> NoRemote, result |-> NoResult,
     calls |-> 0]

ToolIdle == tool = NoTool

NoBody == [json |-> FALSE, task_id |-> PyNone]

NoImage ==
    [pc |-> "idle", requests |-> <<>>, now |-> 0, status |-> 0, body |-> NoBody,
     task_id |-> PyNone, fetch_status |-> 0, fetch_body |-> NoBody,
     error |-> "", runs |-> 0]

ImageIdle == image = NoImage

NoChat ==
    [pc |-> "idle", policy |-> "", last_speaker |-> "", next |-> "",
     outcome |-> [kind |-> "", value |-> ""], auto |-> FALSE,
     selected_by |-> <<>>]

ChatIdle == chat = NoChat

RouterIdle ==
    /\ messages = <<>>
    /\ call = NoCall

PdfInit ==
    /\ RouterIdle
    /\ ToolIdle
    /\ ImageIdle
    /\ ChatIdle
    /\ env \in [table_name : BOOLEAN, endpoint : BOOLEAN]
    /\ table = [id \in AnalysisIds |-> NoItem]
    /\ pc = "idle"
    /\ frame = NoFrame
    /\ log = <<>>
    /\ response = NoResponse
    /\ clock = 0

(* The Lambda runtime calls handler(event, context). *)
Invoke(event) ==
    /\ pc \in {"idle", "returned", "escaped"}
    /\ clock < MaxInvocations
    /\ clock' = clock + 1
    /\ frame' = [NoFrame EXCEPT !.event = event]
    /\ log' = <<>>
    /\ response' = NoResponse
    /\ pc' = "clients"
    /\ UNCHANGED <<env, table>>
    /\ UNCHANGED <<router_vars, adapter_vars, chat_vars>>

(* Lines 17-18: boto3.client('s3'), boto3.resource('dynamodb'); outside    *)
(* the try statement.                                                      *)
CreateClients(ok) ==
    /\ pc = "clients"
    /\ log' = Append(log, Effect("boto3", 17, "", ok))
    /\ IF ok THEN /\ pc' = "config"
                  /\ frame' = frame
            ELSE /\ pc' = "escaped"
                 /\ frame' = Raised(frame, "boto3 error")
    /\ UNCHANGED <<env, table, response, clock>>
    /\ UNCHANGED <<router_vars, adapter_vars, chat_vars>>

(* Variant: only the table name is tested. *)
CheckConfig_table_only ==
    /\ pc = "config"
    /\ IF ~env.table_name
       THEN /\ response' = [statusCode |-> 500, error |-> MSG_CONFIG]
            /\ pc' = "returned"
       ELSE /\ response' = response
            /\ pc' = "event"
    /\ UNCHANGED <<env, table, frame, log, clock>>
    /\ UNCHANGED <<router_vars, adapter_vars, chat_vars>>

(* Lines 22-29: the configuration check. *)
CheckConfig ==
    /\ pc = "config"
    /\ IF ~env.table_name \/ ~env.endpoint
       THEN /\ response' = [statusCode |-> 500, error |-> MSG_CONFIG]
            /\ pc' = "returned"
       ELSE /\ response' = response
            /\ pc' = "event"
    /\ UNCHANGED <<env, table, frame, log, clock>>
    /\ UNCHANGED <<router_vars, adapter_vars, chat_vars>>

(* Lines 32-41: bucket and key of the first record, and the defaults. *)
ParseEvent ==
    /\ pc = "event"
    /\ IF frame.event.Records = <<>>
       THEN /\ frame' = Raised(frame, "list index out of range")
            /\ pc' = "except"
       ELSE LET key == unquote_plus(frame.event.Records[1].key) IN
            /\ frame' = [frame EXCEPT
                            !.bucket_name = frame.event.Records[1].bucket,
                            !.s3_object_key = key,
                            !.original_filename = LastSegment(key)]
            /\ pc' = "head_object"
    /\ UNCHANGED <<env, table, log, response, clock>>
    /\ UNCHANGED <<router_vars, adapter_vars, chat_vars>>

(* Line 44: s3_client.head_object. *)
HeadObject(ok) ==
    /\ pc = "head_object"
    /\ log' = Append(log, Effect("head_object", 44, "", ok))
    /\ IF ok THEN /\ frame' = frame
                  /\ pc' = "metadata"
            ELSE /\ frame' = Raised(frame, "head_object error")
                 /\ pc' = "metadata_except"
    /\ UNCHANGED <<env, table, response, clock>>
    /\ UNCHANGED <<router_vars, adapter_vars, chat_vars>>

(* Lines 45-59: the four metadata reads, the check of the identifier, and  *)
(* the print; fault is an exception from a statement after line 48.        *)
ReadMetadata(fault) ==
    /\ pc = "metadata"
    /\ LET o == ObjectAt(frame.s3_object_key)
           f == [frame EXCEPT
                    !.analysis_id_from_metadata = o.analysis_id,
                    !.user_id = MetadataGet(o.user_id, @),
                    !.user_selected_state = MetadataGet(o.state, @),
                    !.original_filename = MetadataGet(o.filename, @)]
       IN IF Falsy(o.analysis_id)
          THEN /\ ~fault
               /\ frame' = Raised(f, MSG_MISSING_ID)
               /\ pc' = "metadata_except"
          ELSE IF fault
          THEN /\ frame' = Raised(f, "metadata error")
               /\ pc' = "metadata_except"
          ELSE /\ frame' = f
               /\ pc' = "get_object"
    /\ UNCHANGED <<env, table, log, response, clock>>
    /\ UNCHANGED <<router_vars, adapter_vars, chat_vars>>

(* Variant: the handler of the metadata block only re-raises. *)
MetadataExcept_reraise(ok) ==
    /\ pc = "metadata_except"
    /\ ok
    /\ pc' = "except"
    /\ UNCHANGED <<env, table, frame, log, response, clock>>
    /\ UNCHANGED <<router_vars, adapter_vars, chat_vars>>

(* Lines 60-80: the handler of the metadata block. *)
MetadataExcept(ok) ==
    /\ pc = "metadata_except"
    /\ LET id == frame.analysis_id_from_metadata IN
       IF Falsy(id)
       THEN /\ ok
            /\ UNCHANGED <<table, log, frame>>
       ELSE /\ log' = Append(log, Effect("update_item", 66, "FAILED", ok))
            /\ IF ok
               THEN /\ table' = [table EXCEPT ![id] =
                           SetFailed(@, <<PREFIX_METADATA, frame.e>>, clock)]
                    /\ frame' = frame
               ELSE /\ table' = table
                    /\ frame' = Raised(frame, "update_item error")
    /\ pc' = "except"
    /\ UNCHANGED <<env, response, clock>>
    /\ UNCHANGED <<router_vars, adapter_vars, chat_vars>>

(* Lines 83-84: s3_client.get_object and the read of its body. *)
GetObject(ok) ==
    /\ pc = "get_object"
    /\ log' = Append(log, Effect("get_object", 83, "", ok))
    /\ IF ok THEN /\ frame' = frame
                  /\ pc' = "extract"
            ELSE /\ frame' = Raised(frame, "get_object error")
                 /\ pc' = "except"
    /\ UNCHANGED <<env, table, response, clock>>
    /\ UNCHANGED <<router_vars, adapter_vars, chat_vars>>

(* Lines 87-93: fitz.open, the join of the pages' texts, and the test of   *)
(* extracted_text.strip().                                                 *)
ExtractText(ok, text) ==
    /\ pc = "extract"
    /\ log' = Append(log, Effect("fitz.open", 87, "", ok))
    /\ IF ok
       THEN /\ frame' = [frame EXCEPT !.extracted_text = text]
            /\ pc' = IF IsBlank(text) THEN "update_empty" ELSE "update_complete"
       ELSE /\ text = <<>>
            /\ frame' = Raised(frame, "fitz error")
            /\ pc' = "except"
    /\ UNCHANGED <<env, table, response, clock>>
    /\ UNCHANGED <<router_vars, adapter_vars, chat_vars>>

(* Lines 94-109: no text; the item is set FAILED and 400 is returned. *)
UpdateEmpty(ok) ==
    /\ pc = "update_empty"
    /\ log' = Append(log, Effect("update_item", 95, "FAILED", ok))
    /\ IF ok
       THEN /\ table' = [table EXCEPT ![frame.analysis_id_from_metadata] =
                   SetFailed(@, DETAILS_NO_TEXT, clock)]
            /\ frame' = frame
            /\ response' = [statusCode |-> 400, error |-> MSG_NO_TEXT]
            /\ pc' = "returned"
       ELSE /\ table' = table
            /\ frame' = Raised(frame, "update_item error")
            /\ response' = response
            /\ pc' = "except"
    /\ UNCHANGED <<env, clock>>
    /\ UNCHANGED <<router_vars, adapter_vars, chat_vars>>

(* Variant: a failure of the update is swallowed and the post is made. *)
UpdateComplete_unchecked(ok) ==
    /\ pc = "update_complete"
    /\ log' = Append(log, Effect("update_item", 139, "TEXT_EXTRACTION_COMPLETE", ok))
    /\ table' = IF ok
                THEN [table EXCEPT ![frame.analysis_id_from_metadata] =
                        SetComplete(@, clock, frame.s3_object_key,
                                    frame.original_filename, frame.user_id,
                                    frame.user_selected_state)]
                ELSE table
    /\ frame' = frame
    /\ pc' = "post"
    /\ UNCHANGED <<env, response, clock>>
    /\ UNCHANGED <<router_vars, adapter_vars, chat_vars>>

(* Lines 111-145: the item is set TEXT_EXTRACTION_COMPLETE. *)
UpdateComplete(ok) ==
    /\ pc = "update_complete"
    /\ log' = Append(log, Effect("update_item", 139, "TEXT_EXTRACTION_COMPLETE", ok))
    /\ IF ok
       THEN /\ table' = [table EXCEPT ![frame.analysis_id_from_metadata] =
                   SetComplete(@, clock, frame.s3_object_key,
                               frame.original_filename, frame.user_id,
                               frame.user_selected_state)]
            /\ frame' = frame
            /\ pc' = "post"
       ELSE /\ table' = table
            /\ frame' = Raised(frame, "update_item error")
            /\ pc' = "except"
    /\ UNCHANGED <<env, response, clock>>
    /\ UNCHANGED <<router_vars, adapter_vars, chat_vars>>

(* Lines 148-166: requests.post, raise_for_status, and the 200 response.   *)
(* answered = FALSE: the post itself raised (no connection, timeout).      *)
PostDownstream(answered, code) ==
    /\ pc = "post"
    /\ answered = (code \in DownstreamStatuses)
    /\ IF ~answered
       THEN /\ log' = Append(log, Effect("requests.post", 158, "", FALSE))
            /\ frame' = Raised(frame, "connection error")
            /\ response' = response
            /\ pc' = "except"
       ELSE IF RaisesForStatus(code)
       THEN /\ log' = Append(log, Effect("requests.post", 158, "", TRUE))
            /\ frame' = Raised([frame EXCEPT !.status_code = code], "HTTPError")
            /\ response' = response
            /\ pc' = "except"
       ELSE /\ log' = Append(log, Effect("requests.post", 158, "", TRUE))
            /\ frame' = [frame EXCEPT !.status_code = code]
            /\ response' = [statusCode |-> 200, error |-> ""]
            /\ pc' = "returned"
    /\ UNCHANGED <<env, table, clock>>
    /\ UNCHANGED <<router_vars, adapter_vars, chat_vars>>

(* Variant: the outer handler answers 500 without recording the failure. *)
Except_unrecorded(ok) ==
    /\ pc = "except"
    /\ ok
    /\ response' = [statusCode |-> 500, error |-> frame.e]
    /\ pc' = "returned"
    /\ UNCHANGED <<env, table, frame, log, clock>>
    /\ UNCHANGED <<router_vars, adapter_vars, chat_vars>>

(* Lines 168-201: the handler of the outer try statement. *)
Except(ok) ==
    /\ pc = "except"
    /\ LET id == frame.analysis_id_from_metadata IN
       IF Falsy(id)
       THEN /\ ok
            /\ UNCHANGED <<table, log>>
       ELSE /\ log' = Append(log, Effect("update_item", 176, "FAILED", ok))
            /\ table' = IF ok
                        THEN [table EXCEPT ![id] =
                                SetFailed(@, <<"", frame.e>>, clock)]
                        ELSE table
    /\ response' = [statusCode |-> 500, error |-> frame.e]
    /\ pc' = "returned"
    /\ UNCHANGED <<env, frame, clock>>
    /\ UNCHANGED <<router_vars, adapter_vars, chat_vars>>

PdfNext ==
    \/ \E event \in Events : Invoke(event)
    \/ \E ok \in BOOLEAN : CreateClients(ok)
    \/ CheckConfig
    \/ ParseEvent
    \/ \E ok \in BOOLEAN : HeadObject(ok)
    \/ \E fault \in BOOLEAN : ReadMetadata(fault)
    \/ \E ok \in BOOLEAN : MetadataExcept(ok)
    \/ \E ok \in BOOLEAN : GetObject(ok)
    \/ \E ok \in BOOLEAN, text \in Texts : ExtractText(ok, text)
    \/ \E ok \in BOOLEAN : UpdateEmpty(ok)
    \/ \E ok \in BOOLEAN : UpdateComplete(ok)
    \/ \E answered \in BOOLEAN, code \in DownstreamStatuses \cup {0} :
          PostDownstream(answered, code)
    \/ \E ok \in BOOLEAN : Except(ok)

PdfSpec == PdfInit /\ [][PdfNext]_vars

(* The handler is not running and the record store is empty. *)
PdfIdle ==
    /\ env = [table_name |-> TRUE, endpoint |-> TRUE]
    /\ table = [id \in AnalysisIds |-> NoItem]
    /\ pc = "idle"
    /\ frame = NoFrame
    /\ log = <<>>
    /\ response = NoResponse
    /\ clock = 0

Init ==
    /\ messages \in Transcripts(MaxLen)
    /\ call = NoCall
    /\ PdfIdle
    /\ ToolIdle
    /\ ImageIdle
    /\ ChatIdle

(* Variant: the callback takes the last message off the list it reads. *)
SelectSpeaker_pop(policy, last_speaker) ==
    /\ call.calls < MaxCalls
    /\ call' = [policy |-> policy, last_speaker |-> last_speaker,
                outcome |-> speaker_selection_method(policy, last_speaker, messages),
                calls |-> call.calls + 1]
    /\ messages' = IF messages = <<>> THEN messages
                   ELSE SubSeq(messages, 1, Len(messages) - 1)
    /\ UNCHANGED <<pdf_vars, adapter_vars, chat_vars>>

(* One invocation of the configured callback by the chat manager. *)
SelectSpeaker(policy, last_speaker) ==
    /\ call.calls < MaxCalls
    /\ call' = [policy |-> policy, last_speaker |-> last_speaker,
                outcome |-> speaker_selection_method(policy, last_speaker, messages),
                calls |-> call.calls + 1]
    /\ UNCHANGED messages
    /\ UNCHANGED <<pdf_vars, adapter_vars, chat_vars>>

(* A conversation turn: the chat manager appends the speaker's message. *)
AppendMessage(m) ==
    /\ Len(messages) < MaxLen
    /\ messages' = Append(messages, m)
    /\ call' = NoCall
    /\ UNCHANGED <<pdf_vars, adapter_vars, chat_vars>>

Next ==
    \/ \E policy \in Policies, last_speaker \in Speakers :
            SelectSpeaker(policy, last_speaker)
    \/ \E m \in Messages : AppendMessage(m)

Spec == Init /\ [][Next]_vars

----------------------------------------------------------------------------
(* The tool functions: get_youtube_transcription                           *)
(* (agentchat_function_call_async.py), bing_search and scraper_tool        *)
(* (research3.py), search_social_media (tools/searchsocial.py).            *)

(* Python values a tool returns. *)
PyList(items) == [type |-> "list", items |-> items, title |-> <<>>]
PyStr(chars) == [type |-> "str", items |-> chars, title |-> <<>>]
PyDict(title, paragraphs) ==
    [type |-> "dict", items |-> paragraphs, title |-> title]

(* A <div>: whether it holds an <a>, and the href of that <a> (PyNone when *)
(* the <a> has no href attribute).                                         *)
Div(a, href) == [a |-> a, href |-> href]

Pages ==
    { [title |-> <<"T">>, paragraphs |-> <<"p">>,
       divs |-> <<Div(TRUE, <<"/","u","1","/">>), Div(FALSE, PyNone)>>,
       text |-> <<"r">>],
      [title |-> PyNone, paragraphs |-> <<>>, divs |-> <<>>, text |-> <<>>],
      [title |-> <<>>, paragraphs |-> <<>>,
       divs |-> <<Div(TRUE, PyNone)>>, text |-> <<"e">>] }

(* Status codes of the responses. *)
ToolStatuses == {200, 204, 404, 500}

(* The remote call raises (connection error, timeout) or answers. *)
Remotes ==
    {[raised |-> TRUE, status |-> 0, page |-> NoPage]}
    \cup [raised : {FALSE}, status : ToolStatuses, page : Pages]

Platforms == {"twitter", "instagram", "facebook"}

(* str.strip("/") *)
RECURSIVE StripSlashes(_)
StripSlashes(str) ==
    IF str = <<>> THEN str
    ELSE IF Head(str) = "/" THEN StripSlashes(Tail(str))
    ELSE IF str[Len(str)] = "/" THEN StripSlashes(SubSeq(str, 1, Len(str) - 1))
    ELSE str

(* get_youtube_transcription: YouTubeTranscriptApi.get_transcript inside   *)
(* try/except Exception, which returns [].                                 *)
get_youtube_transcription(remote) ==
    IF remote.raised \/ RaisesForStatus(remote.status)
    THEN Return(PyList(<<>>))
    ELSE Return(PyList(remote.page.paragraphs))

(* bing_search: requests.get, raise_for_status, response.text; no try.     *)
bing_search(remote) ==
    IF remote.raised THEN Raise("ConnectionError")
    ELSE IF RaisesForStatus(remote.status) THEN Raise("HTTPError")
    ELSE Return(PyStr(remote.page.text))

(* scraper_tool: requests.get, then soup.title.text and find_all("p");     *)
(* no try, no status test.  soup.title is None without a <title>.          *)
scraper_tool(remote) ==
    IF remote.raised THEN Raise("ConnectionError")
    ELSE IF remote.page.title = PyNone THEN Raise("AttributeError")
    ELSE Return(PyDict(remote.page.title, remote.page.paragraphs))

(* The loop of search_social_media over the divs: a["href"].strip("/") of  *)
(* each div that has an <a>.                                               *)
RECURSIVE Usernames(_, _)
Usernames(divs, usernames) ==
    IF divs = <<>> THEN Return(PyList(usernames))
    ELSE IF ~Head(divs).a THEN Usernames(Tail(divs), usernames)
    ELSE IF Head(divs).href = PyNone THEN Raise("KeyError")
    ELSE Usernames(Tail(divs),
                   Append(usernames, StripSlashes(Head(divs).href)))

(* search_social_media: url by platform, requests.get, parse; no try, no   *)
(* status test.                                                            *)
search_social_media(platform, remote) ==
    IF platform \notin {"twitter", "instagram"} THEN Raise("ValueError")
    ELSE IF remote.raised THEN Raise("ConnectionError")
    ELSE Usernames(remote.page.divs, <<>>)

(* The record of a finished call. *)
ToolCall(name, platform, remote, result) ==
    [name |-> name, platform |-> platform, remote |-> remote,
     result |-> result, calls |-> tool.calls + 1]

Call_get_youtube_transcription(remote) ==
    /\ tool.calls < MaxToolCalls
    /\ tool' = ToolCall("get_youtube_transcription", "", remote,
                        get_youtube_transcription(remote))
    /\ UNCHANGED <<router_vars, pdf_vars, chat_vars, image>>

Call_bing_search(remote) ==
    /\ tool.calls < MaxToolCalls
    /\ tool' = ToolCall("bing_search", "", remote, bing_search(remote))
    /\ UNCHANGED <<router_vars, pdf_vars, chat_vars, image>>

Call_scraper_tool(remote) ==
    /\ tool.calls < MaxToolCalls
    /\ tool' = ToolCall("scraper_tool", "", remote, scraper_tool(remote))
    /\ UNCHANGED <<router_vars, pdf_vars, chat_vars, image>>

(* The remote call is made only for a platform the function knows. *)
Call_search_social_media(platform, remote) ==
    /\ tool.calls < MaxToolCalls
    /\ (remote = NoRemote) = (platform \notin {"twitter", "instagram"})
    /\ tool' = ToolCall("search_social_media", platform, remote,
                        search_social_media(platform, remote))
    /\ UNCHANGED <<router_vars, pdf_vars, chat_vars, image>>

ToolInit ==
    /\ RouterIdle
    /\ PdfIdle
    /\ ImageIdle
    /\ ChatIdle
    /\ ToolIdle

ToolNext ==
    \/ \E remote \in Remotes : Call_get_youtube_transcription(remote)
    \/ \E remote \in Remotes : Call_bing_search(remote)
    \/ \E remote \in Remotes : Call_scraper_tool(remote)
    \/ \E platform \in Platforms, remote \in Remotes \cup {NoRemote} :
          Call_search_social_media(platform, remote)

ToolSpec == ToolInit /\ [][ToolNext]_vars

----------------------------------------------------------------------------
(* image_gen1.py: generate_image, one coroutine run by asyncio.run.        *)

(* asyncio.sleep(5) *)
SLEEP_SECONDS == 5

IMAGINE == "https://api.midjourneyapi.xyz/mj/v2/imagine"
FETCH == "https://api.midjourneyapi.xyz/mj/v2/fetch"

(* Response bodies: JSON with a task_id, JSON without one, not JSON. *)
Bodies ==
    { [json |-> TRUE, task_id |-> <<"t","1">>],
      [json |-> TRUE, task_id |-> PyNone],
      NoBody }

ImageStatuses == {200, 202, 401, 500}

(* A request sent on the session. *)
Request(url, task_id) == [url |-> url, task_id |-> task_id, time |-> image.now]

(* asyncio.run(generate_image()) *)
Run ==
    /\ image.pc \in {"idle", "done", "raised"}
    /\ image.runs < MaxRuns
    /\ image' = [NoImage EXCEPT !.pc = "post", !.now = image.now,
                                !.runs = image.runs + 1]
    /\ UNCHANGED <<router_vars, pdf_vars, chat_vars, tool>>

(* Line 21: session.post(endpoint, headers=headers, json=data). *)
Submit(answered, status, body) ==
    /\ image.pc = "post"
    /\ answered = (status # 0)
    /\ answered \/ body = NoBody
    /\ image' =
         IF answered
         THEN [image EXCEPT !.requests = Append(@, Request(IMAGINE, PyNone)),
                            !.status = status, !.body = body, !.pc = "json"]
         ELSE [image EXCEPT !.requests = Append(@, Request(IMAGINE, PyNone)),
                            !.error = "ClientError", !.pc = "raised"]
    /\ UNCHANGED <<router_vars, pdf_vars, chat_vars, tool>>

(* Lines 22-25: response.json() and response_json["task_id"], before the   *)
(* status is looked at.                                                    *)
ReadSubmission ==
    /\ image.pc = "json"
    /\ image' =
         IF ~image.body.json
         THEN [image EXCEPT !.error = "ContentTypeError", !.pc = "raised"]
         ELSE IF image.body.task_id = PyNone
         THEN [image EXCEPT !.error = "KeyError", !.pc = "raised"]
         ELSE [image EXCEPT !.task_id = image.body.task_id, !.pc = "check"]
    /\ UNCHANGED <<router_vars, pdf_vars, chat_vars, tool>>

(* Lines 27-29: if response.status != 200: return. *)
CheckStatus ==
    /\ image.pc = "check"
    /\ image' = [image EXCEPT !.pc = IF image.status # 200 THEN "done"
                                                            ELSE "sleep"]
    /\ UNCHANGED <<router_vars, pdf_vars, chat_vars, tool>>

(* Line 31: await asyncio.sleep(5). *)
Sleep ==
    /\ image.pc = "sleep"
    /\ image' = [image EXCEPT !.now = @ + SLEEP_SECONDS, !.pc = "fetch"]
    /\ UNCHANGED <<router_vars, pdf_vars, chat_vars, tool>>

(* Lines 33-36: session.post(fetch_point, json={"task_id": task_id}). *)
Fetch(answered, status, body) ==
    /\ image.pc = "fetch"
    /\ answered = (status # 0)
    /\ answered \/ body = NoBody
    /\ image' =
         IF answered
         THEN [image EXCEPT !.requests = Append(@, Request(FETCH, image.task_id)),
                            !.fetch_status = status, !.fetch_body = body,
                            !.pc = "fetch_json"]
         ELSE [image EXCEPT !.requests = Append(@, Request(FETCH, image.task_id)),
                            !.error = "ClientError", !.pc = "raised"]
    /\ UNCHANGED <<router_vars, pdf_vars, chat_vars, tool>>

(* Lines 37-39: fetch_response.json() and the prints. *)
ReadFetch ==
    /\ image.pc = "fetch_json"
    /\ image' =
         IF ~image.fetch_body.json
         THEN [image EXCEPT !.error = "ContentTypeError", !.pc = "raised"]
         ELSE [image EXCEPT !.pc = "done"]
    /\ UNCHANGED <<router_vars, pdf_vars, chat_vars, tool>>

ImageInit ==
    /\ RouterIdle
    /\ PdfIdle
    /\ ToolIdle
    /\ ChatIdle
    /\ ImageIdle

ImageNext ==
    \/ Run
    \/ \E answered \in BOOLEAN, status \in ImageStatuses \cup {0},
          body \in Bodies : Submit(answered, status, body)
    \/ ReadSubmission
    \/ CheckStatus
    \/ Sleep
    \/ \E answered \in BOOLEAN, status \in ImageStatuses \cup {0},
          body \in Bodies : Fetch(answered, status, body)
    \/ ReadFetch

ImageSpec == ImageInit /\ [][ImageNext]_vars

----------------------------------------------------------------------------
(* The group chats of research.py and research3.py, run by the chat        *)
(* manager: after the initiating message of Admin, the manager calls the   *)
(* configured speaker_selection_method with the last speaker, lets the     *)
(* selected agent speak (any listed agent when the callback answers        *)
(* "auto"), appends its message, and stops at max_round messages or when   *)
(* the conversation is terminated.                                         *)

(* speaker_selection_method of the two GroupChat objects. *)
ChatPolicies == {"research.state_transition", "research3.state_transition_2"}

(* What an agent replies: text, with or without the literals, or a         *)
(* function call, whose content is None.                                   *)
ChatContents ==
    { Str(<<"d","a","t","a">>),
      Str(<<"i","s"," ">> \o COMPLETE \o <<".">>),
      Str(EXITCODE_1),
      None }

TASK == Str(<<"t","a","s","k">>)

(* user_proxy.initiate_chat(manager, message=...) *)
InitiateChat(policy) ==
    /\ chat.pc = "idle"
    /\ messages' = <<[name |-> user_proxy, content |-> TASK]>>
    /\ chat' = [NoChat EXCEPT !.pc = "select", !.policy = policy,
                              !.last_speaker = user_proxy,
                              !.selected_by = <<"initiate_chat">>]
    /\ UNCHANGED <<call, pdf_vars, adapter_vars>>

(* The manager asks the callback for the next speaker. *)
SelectNext ==
    /\ chat.pc = "select"
    /\ Len(messages) < MaxRound
    /\ LET o == speaker_selection_method(chat.policy, chat.last_speaker, messages)
       IN chat' = [chat EXCEPT
                     !.outcome = o,
                     !.auto = FALSE,
                     !.next = IF o.kind = "return" /\ o.value \in Participants
                              THEN o.value ELSE "",
                     !.pc = IF o.kind = "raise" THEN "raised"
                            ELSE IF o.value \in Participants THEN "speak"
                            ELSE IF o.value = AUTO THEN "auto"
                            ELSE "unmatched"]
    /\ UNCHANGED <<messages, call, pdf_vars, adapter_vars>>

(* The callback answered "auto": the manager's own selection names any     *)
(* agent of the list.                                                      *)
AutoSelect(agent) ==
    /\ chat.pc = "auto"
    /\ chat' = [chat EXCEPT !.next = agent, !.auto = TRUE, !.pc = "speak"]
    /\ UNCHANGED <<messages, call, pdf_vars, adapter_vars>>

(* The selected agent replies and the manager appends the message. *)
Speak(content) ==
    /\ chat.pc = "speak"
    /\ messages' = Append(messages, [name |-> chat.next, content |-> content])
    /\ chat' = [chat EXCEPT
                  !.last_speaker = chat.next,
                  !.selected_by = Append(@, IF chat.auto THEN "auto"
                                                         ELSE "callback"),
                  !.pc = "select"]
    /\ UNCHANGED <<call, pdf_vars, adapter_vars>>

(* The round limit is reached, the termination predicate holds of the last *)
(* message, or the human ends the conversation.                            *)
StopChat ==
    /\ chat.pc = "select"
    /\ chat' = [chat EXCEPT !.pc = "stopped"]
    /\ UNCHANGED <<messages, call, pdf_vars, adapter_vars>>

ChatInit ==
    /\ RouterIdle
    /\ PdfIdle
    /\ ToolIdle
    /\ ImageIdle
    /\ ChatIdle

ChatNext ==
    \/ \E policy \in ChatPolicies : InitiateChat(policy)
    \/ SelectNext
    \/ \E agent \in Participants : AutoSelect(agent)
    \/ \E content \in ChatContents : Speak(content)
    \/ StopChat

ChatSpec == ChatInit /\ [][ChatNext]_vars

----------------------------------------------------------------------------
(* Vocabulary of the properties. *)

(* Both files define a callback named state_transition; research3.py also  *)
(* defines state_transition_2.                                             *)
PolicyA == {"research.state_transition", "research3.state_transition"}
PolicyB == {"research3.state_transition_2"}

(* A call has been made on the current transcript. *)
Called == call.calls > 0

(* The transcript has a last message, and that message has a content. *)
HasContent ==
    /\ messages # <<>>
    /\ "content" \in DOMAIN messages[Len(messages)]

Content == messages[Len(messages)].content

HasStrContent == HasContent /\ Content.type = "str"

(* sub occurs in s, character by character, starting at some position. *)
Occurs(sub, s) ==
    \E i \in 1..Len(s) :
        \A k \in 1..Len(sub) : i + k - 1 <= Len(s) /\ s[i + k - 1] = sub[k]

(* Transcripts of one or two messages that end with the content (or the    *)
(* missing content) of the current last message.                           *)
SameTail ==
    LET last == messages[Len(messages)]
        finals == IF "content" \in DOMAIN last
                  THEN {[name |-> n, content |-> last.content] : n \in Names}
                  ELSE {[name |-> n] : n \in Names}
    IN {Append(t, m) : t \in Transcripts(1), m \in finals}

----------------------------------------------------------------------------
(* C1: under either state_transition, a call with last speaker Executor on *)
(* a transcript whose last message has a content returns Researcher when   *)
(* that content is exactly "exitcode: 1" and Planner for any other         *)
(* content (a superstring, another case, None).                            *)
C1_ExecutorExitcode ==
    (Called /\ call.policy \in PolicyA /\ call.last_speaker = executor
        /\ HasContent)
    => call.outcome = IF Content = Str(EXITCODE_1)
                      THEN Return(researcher) ELSE Return(planner)

C1_Witness ==
    /\ Called /\ call.policy = "research.state_transition"
    /\ call.last_speaker = executor
    /\ HasStrContent /\ Content # Str(EXITCODE_1)
    /\ Occurs(EXITCODE_1, Content.chars)
    /\ call.outcome = Return(planner)

(* C2: under state_transition_2, a call with last speaker Researcher on a  *)
(* transcript whose last message has a str content returns Planner when    *)
(* "COMPLETE" occurs in it (case-sensitive, anywhere) and Executor         *)
(* otherwise.                                                              *)
C2_ResearcherComplete ==
    (Called /\ call.policy \in PolicyB /\ call.last_speaker = researcher
        /\ HasStrContent)
    => call.outcome = IF Occurs(COMPLETE, Content.chars)
                      THEN Return(planner) ELSE Return(executor)

C2_Witness ==
    /\ Called /\ call.policy \in PolicyB /\ call.last_speaker = researcher
    /\ HasStrContent /\ Content # Str(COMPLETE)
    /\ Occurs(COMPLETE, Content.chars)
    /\ call.outcome = Return(planner)

(* C3: under state_transition_2, a call with last speaker Executor on a    *)
(* transcript whose last message has a str content returns Planner when    *)
(* "COMPLETE" occurs in it and Researcher otherwise.                       *)
C3_ExecutorComplete ==
    (Called /\ call.policy \in PolicyB /\ call.last_speaker = executor
        /\ HasStrContent)
    => call.outcome = IF Occurs(COMPLETE, Content.chars)
                      THEN Return(planner) ELSE Return(researcher)

C3_Witness ==
    /\ Called /\ call.policy \in PolicyB /\ call.last_speaker = executor
    /\ HasStrContent /\ ~Occurs(COMPLETE, Content.chars)
    /\ Content.chars # <<>>
    /\ call.outcome = Return(researcher)

(* C4, as stated: under either state_transition, a call with last speaker  *)
(* Researcher returns Executor, whatever the transcript.                   *)
C4_Original ==
    (Called /\ call.policy \in PolicyA /\ call.last_speaker = researcher)
    => call.outcome = Return(executor)

(* C4, amended: under the state_transition of research.py, a call with     *)
(* last speaker Researcher returns Executor, whatever the transcript.      *)
C4_ResearcherToExecutor ==
    (Called /\ call.policy = "research.state_transition"
        /\ call.last_speaker = researcher)
    => call.outcome = Return(executor)

C4_Witness ==
    /\ Called /\ call.policy = "research.state_transition"
    /\ call.last_speaker = researcher
    /\ HasStrContent /\ Occurs(COMPLETE, Content.chars)
    /\ call.outcome = Return(executor)

(* C5: under every callback, a call whose last speaker is none of the five *)
(* participants ends in an error raised to the caller, never in an absent  *)
(* decision.                                                               *)
C5_UnmatchedSpeakerRaises ==
    (Called /\ call.last_speaker \notin Participants)
    => call.outcome.kind = "raise"

(* C6: under every callback, a call whose last speaker is one of the five  *)
(* participants returns a decision without raising, whatever the           *)
(* transcript (empty, last content None or missing).                       *)
C6_ListedSpeakerNeverRaises ==
    (Called /\ call.last_speaker \in Participants)
    => (call.outcome.kind = "return" /\ call.outcome.value # NoDecision)

(* C7: under every callback, a call with last speaker Admin returns        *)
(* Planner, whatever the transcript.                                       *)
C7_AdminToPlanner ==
    (Called /\ call.last_speaker = user_proxy)
    => call.outcome = Return(planner)

C7_Witness ==
    /\ Called /\ call.policy \in PolicyB /\ call.last_speaker = user_proxy
    /\ messages = <<>>
    /\ call.outcome = Return(planner)

(* C8: the outcome of a call is the outcome of the same callback for the   *)
(* same last speaker on every other transcript that ends with the same     *)
(* content, whatever its length, its earlier messages and the speaker      *)
(* recorded on its last message.                                           *)
C8_OnlyLastContent ==
    (Called /\ messages # <<>>)
    => \A t \in SameTail :
          speaker_selection_method(call.policy, call.last_speaker, t)
             = call.outcome

C8_Witness ==
    /\ Called /\ call.policy \in PolicyB /\ call.last_speaker = researcher
    /\ Len(messages) = 2
    /\ HasStrContent /\ ~Occurs(COMPLETE, Content.chars)
    /\ "content" \in DOMAIN messages[1]
    /\ messages[1].content = Str(COMPLETE)
    /\ messages[2].name = executor
    /\ call.outcome = Return(executor)

(* C9: a step that makes a call, the first on a transcript or a repeated   *)
(* one, leaves the transcript as it was.                                   *)
C9_CallLeavesTranscript ==
    [][call'.calls = call.calls + 1 => messages' = messages]_vars

C9_Witness ==
    /\ call.calls > 1
    /\ messages # <<>>
    /\ call.last_speaker = executor

(* C11: under every callback, a call with last speaker Planner returns the *)
(* string "auto", whatever the transcript.                                 *)
C11_PlannerToAuto ==
    (Called /\ call.last_speaker = planner)
    => call.outcome = Return(AUTO)

C11_Witness ==
    /\ Called /\ call.policy = "research3.state_transition"
    /\ call.last_speaker = planner
    /\ HasStrContent /\ Occurs(COMPLETE, Content.chars)
    /\ call.outcome = Return(AUTO)

(* C12: under either state_transition, a call with last speaker Writer     *)
(* returns Admin, whatever the transcript.                                 *)
C12_WriterToAdmin ==
    (Called /\ call.policy \in PolicyA /\ call.last_speaker = writer)
    => call.outcome = Return(user_proxy)

C12_Witness ==
    /\ Called /\ call.policy = "research.state_transition"
    /\ call.last_speaker = writer
    /\ messages # <<>> /\ ~HasContent
    /\ call.outcome = Return(user_proxy)

(* C13: under state_transition_2, a call with last speaker Writer returns  *)
(* the string "auto", whatever the transcript.                             *)
C13_WriterToAuto ==
    (Called /\ call.policy \in PolicyB /\ call.last_speaker = writer)
    => call.outcome = Return(AUTO)

C13_Witness ==
    /\ Called /\ call.policy \in PolicyB /\ call.last_speaker = writer
    /\ HasContent /\ Content = None
    /\ call.outcome = Return(AUTO)

----------------------------------------------------------------------------
(* Vocabulary of the properties of the handler. *)

(* The invocation has returned a response. *)
Returned == pc = "returned"

AnalysisId == frame.analysis_id_from_metadata

(* The item of the invocation's analysis identifier. *)
Item == table[AnalysisId]

(* An exception was raised in this invocation; the first one is the        *)
(* original error.                                                         *)
SomeRaised == frame.raised # <<>>
OriginalError == frame.raised[1]

(* Positions in the log of the calls to update_item, and to the endpoint.  *)
Updates == {i \in 1..Len(log) : log[i].op = "update_item"}
Posts == {i \in 1..Len(log) : log[i].op = "requests.post"}

(* Text was extracted, and it is empty or only spaces and newlines. *)
Extracted == \E i \in 1..Len(log) : log[i].op = "fitz.open" /\ log[i].ok
NoText ==
    /\ Extracted
    /\ \A i \in 1..Len(frame.extracted_text) :
          frame.extracted_text[i] \in {" ", "\n", "\t"}

(* The endpoint answered. *)
Answered == frame.status_code # 0

(* The metadata block (lines 43-59) raised. *)
MetadataFailed ==
    /\ SomeRaised
    /\ OriginalError \in {"head_object error", MSG_MISSING_ID, "metadata error"}

----------------------------------------------------------------------------
(* C14: no exception leaves the handler: whatever fails, the invocation    *)
(* returns a response, and when an exception was caught the response is    *)
(* 500 and an update of the item to FAILED was made.                       *)
C14_NothingEscapes ==
    /\ pc # "escaped"
    /\ (Returned /\ SomeRaised)
       => /\ response.statusCode = 500
          /\ \E i \in Updates : log[i].status = "FAILED"

(* C15, as stated: when the endpoint answers with a status outside 2xx,    *)
(* the handler returns 500 and the item ends FAILED with the reason in     *)
(* errorDetails.                                                           *)
C15_Original ==
    (Returned /\ Answered
        /\ ~(200 <= frame.status_code /\ frame.status_code < 300))
    => /\ response.statusCode = 500
       /\ Item.status = "FAILED"
       /\ "errorDetails" \in Item.has
       /\ Item.errorDetails[2] = "HTTPError"

(* C15, amended: when the endpoint answers 4xx or 5xx, the handler returns *)
(* 500 with the reason, its last call is the update of the item to FAILED, *)
(* and when that update succeeds the item ends FAILED with the reason in   *)
(* errorDetails; when it fails the item keeps TEXT_EXTRACTION_COMPLETE.    *)
C15_DownstreamFailure ==
    (Returned /\ Answered /\ frame.status_code >= 400)
    => /\ response = [statusCode |-> 500, error |-> "HTTPError"]
       /\ log # <<>>
       /\ log[Len(log)].op = "update_item"
       /\ log[Len(log)].status = "FAILED"
       /\ IF log[Len(log)].ok
          THEN /\ Item.status = "FAILED"
               /\ "errorDetails" \in Item.has
               /\ Item.errorDetails = <<"", "HTTPError">>
          ELSE Item.status = "TEXT_EXTRACTION_COMPLETE"

C15_Witness ==
    /\ Returned /\ Answered /\ frame.status_code = 404
    /\ response.statusCode = 500
    /\ Item.status = "FAILED"
    /\ Item.errorDetails = <<"", "HTTPError">>
    /\ Item.s3Key = frame.s3_object_key

C17_Original ==
    Returned
    => /\ response.statusCode \in {200, 400, 500}
       /\ response.statusCode = 200
          => /\ Extracted /\ ~NoText
             /\ \E i \in Updates :
                  log[i].status = "TEXT_EXTRACTION_COMPLETE" /\ log[i].ok
             /\ 200 <= frame.status_code /\ frame.status_code < 300
       /\ response.statusCode = 400 => NoText

(* C17, amended: as stated, with "the endpoint answered with a status      *)
(* that is not 4xx or 5xx" for "answered 2xx".                             *)
C17_StatusCodes ==
    Returned
    => /\ response.statusCode \in {200, 400, 500}
       /\ response.statusCode = 200
          => /\ Extracted /\ ~NoText
             /\ \E i \in Updates :
                  log[i].status = "TEXT_EXTRACTION_COMPLETE" /\ log[i].ok
             /\ Answered
             /\ ~(400 <= frame.status_code /\ frame.status_code < 600)
       /\ response.statusCode = 400 => NoText

C17_Witness ==
    /\ Returned
    /\ response.statusCode = 200
    /\ frame.status_code = 201
    /\ Item.status = "TEXT_EXTRACTION_COMPLETE"

C19_SecondaryFailureOnlyLogged ==
    Returned
    => \A i \in Updates :
          (log[i].status = "FAILED" /\ ~log[i].ok)
          => /\ response.statusCode = 500
             /\ response.error = OriginalError
             /\ i = Len(log)

(* C20: after any invocations, an item whose status is                     *)
(* TEXT_EXTRACTION_COMPLETE has no errorDetails.                           *)
C20_ErrorDetailsOnlyOnFailure ==
    Returned
    => \A id \in AnalysisIds :
          table[id].status = "TEXT_EXTRACTION_COMPLETE"
          => "errorDetails" \notin table[id].has

(* C23: in an invocation the endpoint is called at most once, and only     *)
(* after a successful update of the item to TEXT_EXTRACTION_COMPLETE: with *)
(* an analysis identifier, text that is not blank, and every earlier step  *)
(* of the invocation successful.                                           *)
C23_PostOnlyAfterComplete ==
    /\ Cardinality(Posts) <= 1
    /\ \A j \in Posts :
          /\ \E i \in Updates :
                /\ i < j
                /\ log[i].status = "TEXT_EXTRACTION_COMPLETE"
                /\ log[i].ok
          /\ ~Falsy(AnalysisId)
          /\ Extracted /\ ~NoText
          /\ \A i \in 1..(j - 1) : log[i].ok
          /\ SomeRaised => OriginalError \in {"connection error", "HTTPError"}

C23_Witness ==
    /\ Returned
    /\ Cardinality(Posts) = 1
    /\ Cardinality(Updates) = 1
    /\ response.statusCode = 200

(* C24: when an invocation returns, the analysis identifier was read and   *)
(* every update of the invocation succeeded, the item's status is          *)
(* TEXT_EXTRACTION_COMPLETE exactly when the response is 200, and FAILED   *)
(* when the response is 400 or 500.                                        *)
C24_StatusMatchesResponse ==
    (Returned /\ ~Falsy(AnalysisId) /\ \A i \in Updates : log[i].ok)
    => /\ (Item.status = "TEXT_EXTRACTION_COMPLETE")
             <=> (response.statusCode = 200)
       /\ response.statusCode \in {400, 500} => Item.status = "FAILED"

C24_Witness ==
    /\ Returned /\ ~Falsy(AnalysisId)
    /\ \A i \in Updates : log[i].ok
    /\ response.statusCode = 500
    /\ OriginalError = "get_object error"
    /\ Item.status = "FAILED"

(* C25: an update that sets FAILED changes only status, errorDetails and   *)
(* lastUpdatedTimestamp of the item of the invocation's analysis           *)
(* identifier: the other attributes of that item, and the other items,     *)
(* stay as they were.                                                      *)
C25_FailedUpdateFrame ==
    [][ (/\ Len(log') = Len(log) + 1
         /\ log'[Len(log')].op = "update_item"
         /\ log'[Len(log')].status = "FAILED")
        => \A id \in AnalysisIds :
              /\ id # AnalysisId => table'[id] = table[id]
              /\ table'[id].s3Key = table[id].s3Key
              /\ table'[id].fileName = table[id].fileName
              /\ table'[id].userId = table[id].userId
              /\ table'[id].userSelectedState = table[id].userSelectedState
              /\ table'[id].has \ {"status", "errorDetails", "lastUpdatedTimestamp"}
                    = table[id].has \ {"status", "errorDetails", "lastUpdatedTimestamp"}
      ]_vars

C25_Witness ==
    /\ Returned
    /\ log # <<>>
    /\ log[Len(log)].op = "update_item"
    /\ log[Len(log)].status = "FAILED"
    /\ log[Len(log)].ok
    /\ {"s3Key", "fileName", "userId", "userSelectedState"} \subseteq Item.has
    /\ Item.userId = frame.user_id
    /\ \E id \in AnalysisIds : id # AnalysisId /\ table[id].has # {}

(* C26: with the table name or the endpoint unset, an invocation makes no  *)
(* call to the bucket, the table, the extractor or the endpoint, and once  *)
(* the clients are built it returns 500 at the configuration check.        *)
C26_ConfigUnsetTouchesNothing ==
    (~env.table_name \/ ~env.endpoint)
    => /\ \A i \in 1..Len(log) : log[i].op = "boto3"
       /\ table = [id \in AnalysisIds |-> NoItem]
       /\ pc \in {"idle", "clients", "config", "returned", "escaped"}
       /\ Returned => response = [statusCode |-> 500, error |-> MSG_CONFIG]
       /\ pc = "escaped" => ~log[Len(log)].ok

C26_Witness ==
    /\ Returned
    /\ env.table_name /\ ~env.endpoint
    /\ response.statusCode = 500
    /\ clock = 2

----------------------------------------------------------------------------
(* Vocabulary of the properties of the tool functions. *)

(* The remote call of the latest tool call was made and failed: it raised, *)
(* or the response is not 2xx.                                             *)
RemoteFailed ==
    /\ tool.name # ""
    /\ tool.remote # NoRemote
    /\ tool.remote.raised
       \/ ~(200 <= tool.remote.status /\ tool.remote.status < 300)

(* C21: when the remote call of a tool function fails, the function        *)
(* returns an empty result; no exception reaches its caller.               *)
C21_RemoteFailureNeverPropagates ==
    RemoteFailed
    => /\ tool.result.kind = "return"
       /\ tool.result.value.items = <<>>

----------------------------------------------------------------------------
(* Vocabulary of the properties of generate_image. *)

Submissions ==
    {i \in 1..Len(image.requests) : image.requests[i].url = IMAGINE}
Retrievals ==
    {i \in 1..Len(image.requests) : image.requests[i].url = FETCH}

(* The run is over: the coroutine returned, or raised. *)
RunOver == image.pc \in {"done", "raised"}

(* C22: a run makes exactly one submission request and at most one         *)
(* retrieval request; the retrieval is made only after a submission        *)
(* response of status 200 and the delay; a submission response of another  *)
(* status ends the run with no retrieval and no error.                     *)
C22_OneSubmissionThenOneRetrieval ==
    /\ RunOver => Cardinality(Submissions) = 1
    /\ Cardinality(Retrievals) <= 1
    /\ \A j \in Retrievals :
          /\ image.status = 200
          /\ \E i \in Submissions :
                /\ i < j
                /\ image.requests[j].time >= image.requests[i].time + 5
    /\ (RunOver /\ image.status \notin {0, 200})
       => /\ Retrievals = {}
          /\ image.pc = "done"

----------------------------------------------------------------------------
(* Vocabulary of the properties of the group chats. *)

(* The other of Researcher and Executor. *)
Other(agent) == IF agent = researcher THEN executor ELSE researcher

(* The message at position i is text in which "COMPLETE" occurs. *)
SaysComplete(i) ==
    /\ messages[i].content.type = "str"
    /\ Occurs(COMPLETE, messages[i].content.chars)

(* Positions of the transcript that have a successor. *)
Answered_turns == 1..(Len(messages) - 1)

(* The callback has just been asked and has answered. *)
Decided == chat.pc \in {"speak", "auto", "unmatched"} /\ ~chat.auto

C28_NeverUnmatched ==
    chat.pc # "idle"
    => /\ chat.pc # "unmatched"
       /\ chat.last_speaker \in Participants
       /\ chat.outcome.kind = "return"
          => chat.outcome.value \in Participants \cup {AUTO}
       /\ \A agent \in Participants :
            LET o == speaker_selection_method(chat.policy, agent, messages)
            IN o.kind = "return" => o.value \in Participants \cup {AUTO}

C28_Witness ==
    /\ chat.policy = "research3.state_transition_2"
    /\ Len(messages) = 4
    /\ chat.selected_by[3] = "auto" /\ messages[3].name = writer
    /\ chat.selected_by[4] = "auto" /\ messages[4].name = user_proxy
    /\ chat.pc = "speak"
    /\ chat.outcome = Return(planner)

(* C29: in the two group chats the callback never returns Writer, and      *)
(* state_transition_2 never returns Admin; Writer (and under               *)
(* state_transition_2 Admin, after its opening message) speaks only when   *)
(* the automatic selection named it; no decision is an absent one.         *)
C29_WriterOnlyByAuto ==
    chat.pc # "idle"
    => /\ chat.outcome.kind = "return"
          => /\ chat.outcome.value # writer
             /\ chat.outcome.value # NoDecision
             /\ chat.policy \in PolicyB => chat.outcome.value # user_proxy
       /\ \A i \in 2..Len(messages) :
            /\ messages[i].name = writer
               => /\ chat.selected_by[i] = "auto"
                  /\ messages[i - 1].name \in {planner, writer}
            /\ (chat.policy \in PolicyB /\ messages[i].name = user_proxy)
               => /\ chat.selected_by[i] = "auto"
                  /\ messages[i - 1].name \in {planner, writer}

C29_Witness ==
    /\ chat.policy = "research.state_transition"
    /\ Len(messages) = 4
    /\ messages[2].name = planner
    /\ messages[3].name = writer /\ chat.selected_by[3] = "auto"
    /\ messages[4].name = user_proxy /\ chat.selected_by[4] = "callback"

(* C30: under the state_transition of research3.py, a call with last       *)
(* speaker Researcher on a transcript whose last message has a str content *)
(* returns Writer when "COMPLETE" occurs in it and Planner otherwise; with *)
(* last speaker Admin, Planner, Executor or Writer the outcome is that of  *)
(* the state_transition of research.py.                                    *)
C30_Research3Researcher ==
    (Called /\ call.policy = "research3.state_transition")
    => /\ (call.last_speaker = researcher /\ HasStrContent)
          => call.outcome = IF Occurs(COMPLETE, Content.chars)
                            THEN Return(writer) ELSE Return(planner)
       /\ call.last_speaker \in {user_proxy, planner, executor, writer}
          => call.outcome = state_transition(call.last_speaker, messages)

C30_Witness ==
    /\ Called /\ call.policy = "research3.state_transition"
    /\ call.last_speaker = researcher
    /\ HasStrContent /\ Content # Str(COMPLETE)
    /\ Occurs(COMPLETE, Content.chars)
    /\ call.outcome = Return(writer)

====
